---- MODULE Spec2Model ----
(***************************************************************************)
(* A model of clipper (src/include/clipper.hpp): the option descriptors    *)
(* (option<Tp>, option<bool>), the registry of basic_clipper (_names,      *)
(* _options) and basic_clipper::parse with set_option.                     *)
(*                                                                         *)
(* A token (string_view) is a sequence of one-character strings, so that   *)
(* the conversions (from_chars, front()) are computed on the characters.   *)
(* A value of an option type is a record [n, e, s]: n the number (or 0/1   *)
(* for bool), e the count of fraction digits of a floating value, s the    *)
(* characters of a string, path or character value.                        *)
(***************************************************************************)
EXTENDS Integers, Sequences, FiniteSets, TLC

(***************************************************************************)
(* Bounds of the model.                                                    *)
(***************************************************************************)
\* most descriptors a registry gets in the build phase
MaxOptions == 2
\* most tokens after the program name in one parse call
MaxArgs == 2
\* most parse calls on one parser instance (SpecRepeat)
MaxCalls == 2
\* most req() calls on descriptors of other parser instances (SpecShared)
MaxForeign == 2
\* most req() calls on one descriptor (SpecReq)
MaxReq == 2
\* the template arguments and the argument of a predicate are in -MaxV..MaxV
\* (SpecPred)
MaxV == 2

(***************************************************************************)
(* Tokens.                                                                 *)
(***************************************************************************)
NoName == <<>>
tok_a == <<"-", "a">>
tok_b == <<"-", "b">>
tok_h == <<"-", "h">>
tok_H == <<"-", "H">>
tok_v == <<"-", "v">>
tok_7 == <<"7">>

\* the tokens argv is drawn from
Tokens == {tok_a, tok_b, tok_h, tok_H, tok_v, tok_7}

\* the calls add_option<Tp>(name[, alt_name]) and add_flag(name[, alt_name])
\* of the build phase: <<type, name, alt_name>>, a bool type for add_flag and
\* alt_name = NoName for the one-name overload
Registrations == {<<"integral", tok_a, NoName>>, <<"bool", tok_b, NoName>>,
                  <<"bool", tok_b, tok_a>>, <<"integral", tok_b, tok_a>>}
\* the (name, alt_name) pairs help_flag and version_flag are called with
HelpPairs == {<<tok_h, NoName>>, <<tok_h, tok_H>>}
VersionPairs == {<<tok_v, NoName>>}

RECURSIVE SeqsUpTo(_, _)
SeqsUpTo(S, n) ==
    IF n = 0 THEN {<<>>}
    ELSE LET shorter == SeqsUpTo(S, n - 1)
         IN shorter \cup {Append(s, t) : s \in shorter, t \in S}

(***************************************************************************)
(* Values of the option types.                                             *)
(***************************************************************************)
IntV(i) == [n |-> i, e |-> 0, s |-> <<>>]
DecV(m, f) == [n |-> m, e |-> f, s |-> <<>>]
StrV(t) == [n |-> 0, e |-> 0, s |-> t]
BoolV(b) == [n |-> IF b THEN 1 ELSE 0, e |-> 0, s |-> <<>>]

\* the integral option types of the model are the 16 bit integers: short
\* (kind "integral") and unsigned short (kind "unsigned")
IntBits == 16
IntMax == 2 ^ (IntBits - 1) - 1
IntMin == 0 - 2 ^ (IntBits - 1)
UIntMax == 2 ^ IntBits - 1

\* Tp(): the value set(value_name, ref) writes
ValueInit(kind) ==
    CASE kind = "bool" -> BoolV(FALSE)
      [] kind \in {"integral", "unsigned", "floating"} -> IntV(0)
      [] OTHER -> StrV(<<>>)

(***************************************************************************)
(* std::from_chars on the characters of a token.                           *)
(***************************************************************************)
Digits == {"0", "1", "2", "3", "4", "5", "6", "7", "8", "9"}

DigitVal(c) ==
    CASE c = "0" -> 0 [] c = "1" -> 1 [] c = "2" -> 2 [] c = "3" -> 3
      [] c = "4" -> 4 [] c = "5" -> 5 [] c = "6" -> 6 [] c = "7" -> 7
      [] c = "8" -> 8 [] c = "9" -> 9

RECURSIVE DigitsPrefix(_)
DigitsPrefix(s) ==
    IF s = <<>> \/ Head(s) \notin Digits THEN <<>>
    ELSE <<Head(s)>> \o DigitsPrefix(Tail(s))

RECURSIVE DigitsValue(_, _)
DigitsValue(s, acc) ==
    IF s = <<>> THEN acc ELSE DigitsValue(Tail(s), acc * 10 + DigitVal(Head(s)))

\* mutant: a value outside the type wraps around instead of failing
from_chars_int_Wrap(val) ==
    LET neg == val # <<>> /\ Head(val) = "-"
        body == IF neg THEN Tail(val) ELSE val
        ds == DigitsPrefix(body)
        mag == DigitsValue(ds, 0)
        v == IF neg THEN 0 - mag ELSE mag
    IN  IF ds = <<>> THEN [ec |-> "invalid_argument", value |-> IntV(0)]
        ELSE [ec |-> "ok", value |-> IntV(((v - IntMin) % (2 ^ IntBits)) + IntMin)]

\* from_chars for a signed integral type: an optional '-', then the longest
\* run of digits; no digit is invalid_argument, a value outside the type is
\* result_out_of_range; what follows the digits is ignored
from_chars_int(val) ==
    LET neg == val # <<>> /\ Head(val) = "-"
        body == IF neg THEN Tail(val) ELSE val
        ds == DigitsPrefix(body)
        mag == DigitsValue(ds, 0)
        v == IF neg THEN 0 - mag ELSE mag
    IN  IF ds = <<>> THEN [ec |-> "invalid_argument", value |-> IntV(0)]
        ELSE IF v < IntMin \/ v > IntMax
             THEN [ec |-> "result_out_of_range", value |-> IntV(0)]
             ELSE [ec |-> "ok", value |-> IntV(v)]

\* from_chars for an unsigned integral type: the longest run of digits; a
\* minus sign is not part of the pattern
from_chars_uint(val) ==
    LET ds == DigitsPrefix(val)
        v == DigitsValue(ds, 0)
    IN  IF ds = <<>> THEN [ec |-> "invalid_argument", value |-> IntV(0)]
        ELSE IF v > UIntMax
             THEN [ec |-> "result_out_of_range", value |-> IntV(0)]
             ELSE [ec |-> "ok", value |-> IntV(v)]

RECURSIVE StripZeros(_, _)
StripZeros(m, f) ==
    IF f > 0 /\ m % 10 = 0 THEN StripZeros(m \div 10, f - 1) ELSE DecV(m, f)

\* from_chars for a floating type on plain decimal notation: an optional
\* '-', digits, and optionally '.' and digits; the value is kept as the
\* decimal number n / 10^e with no trailing zero in its fraction
from_chars_float(val) ==
    LET neg == val # <<>> /\ Head(val) = "-"
        body == IF neg THEN Tail(val) ELSE val
        ip == DigitsPrefix(body)
        rest == SubSeq(body, Len(ip) + 1, Len(body))
        fp == IF rest # <<>> /\ Head(rest) = "." THEN DigitsPrefix(Tail(rest)) ELSE <<>>
        mag == DigitsValue(ip \o fp, 0)
        d == StripZeros(mag, Len(fp))
    IN  IF ip = <<>> /\ fp = <<>> THEN [ec |-> "invalid_argument", value |-> IntV(0)]
        ELSE [ec |-> "ok", value |-> DecV(IF neg THEN 0 - d.n ELSE d.n, d.e)]

(***************************************************************************)
(* CLI::pred, the predicate templates, on numeric values.                  *)
(***************************************************************************)
Pow10(k) == 10 ^ k
\* a < b for two decimal numbers n / 10^e
NumLess(a, b) == a.n * Pow10(b.e) < b.n * Pow10(a.e)
NumLeq(a, b) == a.n * Pow10(b.e) <= b.n * Pow10(a.e)

\* mutant: the bounds are taken in
between_Inclusive(V1, V2, val) == NumLeq(V1, val) /\ NumLeq(val, V2)

between(V1, V2, val) == NumLess(V1, val) /\ NumLess(val, V2)
ibetween(V1, V2, val) == NumLeq(V1, val) /\ NumLeq(val, V2)
greater_than(V, val) == NumLess(V, val)
igreater_than(V, val) == NumLeq(V, val)
less_than(V, val) == NumLess(val, V)
iless_than(V, val) == NumLeq(val, V)

LowerCase == {"a", "b", "c", "d", "e", "f", "g", "h", "i", "j", "k", "l", "m",
              "n", "o", "p", "q", "r", "s", "t", "u", "v", "w", "x", "y", "z"}

\* a predicate (bool (*)(const Tp&)) is a record: fn names the function and
\* V1, V2 are its template arguments; fn = "nullptr" is no predicate
NoPred == [fn |-> "nullptr", V1 |-> IntV(0), V2 |-> IntV(0)]
Pred1(fn, V) == [fn |-> fn, V1 |-> V, V2 |-> V]
Pred2(fn, V1, V2) == [fn |-> fn, V1 |-> V1, V2 |-> V2]

\* the call _match_func(val)
CallPred(p, val) ==
    CASE p.fn = "between" -> between(p.V1, p.V2, val)
      [] p.fn = "ibetween" -> ibetween(p.V1, p.V2, val)
      [] p.fn = "greater_than" -> greater_than(p.V1, val)
      [] p.fn = "igreater_than" -> igreater_than(p.V1, val)
      [] p.fn = "less_than" -> less_than(p.V1, val)
      [] p.fn = "iless_than" -> iless_than(p.V1, val)
      [] p.fn = "lower_case" -> val.s # <<>> /\ Head(val.s) \in LowerCase
      [] p.fn = "shorter_than" -> Len(val.s) < p.V1.n

(***************************************************************************)
(* option<Tp> and option<bool>: a descriptor.  _ptr is the slot of the     *)
(* caller's variable the descriptor writes to, 0 for nullptr.              *)
(***************************************************************************)
nullptr == 0

\* string_view_type _vname { "value" }
DefaultVname == <<"v", "a", "l", "u", "e">>
\* the value_name the caller passes to set
value_name == <<"n", "u", "m">>

\* option(nm) and option(nm, anm); the one-name constructor leaves alt_name
\* empty
option(kind, nm, anm) ==
    [name |-> nm, alt_name |-> anm, kind |-> kind, _req |-> FALSE,
     _vname |-> DefaultVname,
     _ptr |-> nullptr, _match_list |-> {}, _match_func |-> NoPred]

\* set(value_name, ref) and set(value_name, ref, def) of option<Tp>, and
\* set(ref) of option<bool>: the descriptor part
set(d, ref) ==
    [d EXCEPT !._ptr = ref, !._vname = IF d.kind = "bool" THEN @ ELSE value_name]

\* match(val...) / allow(val...), the values already of the option type
match(d, vals) == [d EXCEPT !._match_list = @ \cup vals]

\* validate(doc, pred) / require(doc, pred)
require(d, pred) == [d EXCEPT !._match_func = pred]

\* req(): the descriptor part (the static counter is incremented with it)
req(d) == [d EXCEPT !._req = TRUE]

\* mutant: a descriptor that is already required is not counted again
any_req_incr_Once(d, n) == IF d._req THEN n ELSE n + 1

\* req(): any_req++, the static counter n after the call on d
any_req_incr(d, n) == n + 1

\* mutant: with a predicate set, the allow-list is not looked at
validate_PredicateOnly(d, val) ==
    IF d._match_func.fn = "nullptr"
    THEN d._match_list = {} \/ val \in d._match_list
    ELSE CallPred(d._match_func, val)

\* bool validate(const Tp& val) const
validate(d, val) ==
    IF d._match_func.fn = "nullptr"
    THEN d._match_list = {} \/ val \in d._match_list
    ELSE CallPred(d._match_func, val) /\ (d._match_list = {} \/ val \in d._match_list)

(***************************************************************************)
(* value_info, synopsis and detailed_synopsis: strings built from the      *)
(* descriptor.  A std::set<Tp> is iterated in the order of operator<.      *)
(***************************************************************************)
\* the characters of the model in the order of their codes
Ascii == <<" ", "(", ")", ",", "-", ".", "0", "1", "2", "3", "4", "5", "6", "7",
           "8", "9", "<", ">", "B", "a", "b", "c", "d", "e", "f", "g", "h", "i",
           "j", "k", "l", "m", "n", "o", "p", "q", "r", "s", "t", "u", "v", "w",
           "x", "y", "z">>
CharCode(c) == CHOOSE i \in DOMAIN Ascii : Ascii[i] = c

\* a < b on strings (and on characters, strings of length one)
RECURSIVE StrLess(_, _)
StrLess(a, b) ==
    IF b = <<>> THEN FALSE
    ELSE IF a = <<>> THEN TRUE
    ELSE IF Head(a) # Head(b) THEN CharCode(Head(a)) < CharCode(Head(b))
    ELSE StrLess(Tail(a), Tail(b))

\* operator< of the option type
ValLess(kind, a, b) ==
    IF kind \in {"integral", "unsigned", "floating"} THEN NumLess(a, b)
    ELSE StrLess(a.s, b.s)

\* the elements of a std::set<Tp> in iteration order
RECURSIVE SetOrder(_, _)
SetOrder(kind, S) ==
    IF S = {} THEN <<>>
    ELSE LET m == CHOOSE x \in S : \A y \in S \ {x} : ValLess(kind, x, y)
         IN  <<m>> \o SetOrder(kind, S \ {m})

DigitChar(k) == Ascii[CharCode("0") + k]

\* the decimal digits of a natural number
RECURSIVE NatDigits(_)
NatDigits(n) ==
    IF n < 10 THEN <<DigitChar(n)>> ELSE NatDigits(n \div 10) \o <<DigitChar(n % 10)>>

\* the last w decimal digits of n, zero padded
RECURSIVE PadDigits(_, _)
PadDigits(n, w) ==
    IF w = 0 THEN <<>> ELSE PadDigits(n \div 10, w - 1) \o <<DigitChar(n % 10)>>

\* std::to_string of an integer
to_string_int(v) ==
    IF v.n < 0 THEN <<"-">> \o NatDigits(0 - v.n) ELSE NatDigits(v.n)

\* std::to_string of a floating value: "%f", six digits after the point
to_string_float(v) ==
    LET mag == (IF v.n < 0 THEN 0 - v.n ELSE v.n) * Pow10(6 - v.e)
    IN  (IF v.n < 0 THEN <<"-">> ELSE <<>>)
        \o NatDigits(mag \div Pow10(6)) \o <<".">> \o PadDigits(mag % Pow10(6), 6)

\* what value_info appends for one element of _match_list
ToText(kind, v) ==
    CASE kind \in {"integral", "unsigned"} -> to_string_int(v)
      [] kind = "floating" -> to_string_float(v)
      [] OTHER -> v.s

\* list.append(...).push_back(' ') for each element, then list.pop_back()
RECURSIVE JoinText(_, _)
JoinText(kind, vs) ==
    IF vs = <<>> THEN <<>>
    ELSE IF Len(vs) = 1 THEN ToText(kind, vs[1])
    ELSE ToText(kind, vs[1]) \o <<" ">> \o JoinText(kind, Tail(vs))

\* string_type value_info() const: "" for option<bool> (option_base)
value_info(d) ==
    IF d.kind = "bool" THEN <<>>
    ELSE IF d._match_list = {} THEN <<"<">> \o d._vname \o <<">">>
    ELSE <<"(">> \o JoinText(d.kind, SetOrder(d.kind, d._match_list)) \o <<")">>

\* string_type synopsis() const
synopsis(d) == d.alt_name \o <<" ">> \o value_info(d)

\* string_type detailed_synopsis() const
detailed_synopsis(d) ==
    (IF d.alt_name = <<>> THEN <<>> ELSE d.alt_name \o <<",", " ">>)
    \o d.name \o <<" ">> \o value_info(d)

\* the result of one assignment: st is "ok", "throw" (std::logic_error) or
\* "crash" (a write through nullptr); value is what the target holds after
Outcome(st, v) == [st |-> st, value |-> v]

\* *_ptr = v
Store(d, cur, v) == IF d._ptr = nullptr THEN Outcome("crash", cur) ELSE Outcome("ok", v)

\* the character val.front() reads: the first character; on an empty token
\* the read is out of bounds (undefined): over a C string it reads the
\* terminating NUL, and a checked build aborts
Front(val) == IF val = <<>> THEN {"NUL", "abort"} ELSE {Head(val)}

\* void assign(string_view_type val): the set of possible outcomes when the
\* target holds cur
assign(d, cur, val) ==
    CASE d.kind = "bool" -> {Store(d, cur, BoolV(TRUE))}
      [] d.kind \in {"string", "path"} ->
            \* the token is written first and validated afterwards
            LET w == Store(d, cur, StrV(val))
            IN  IF w.st = "crash" THEN {w}
                ELSE IF validate(d, w.value) THEN {w}
                ELSE {Outcome("throw", w.value)}
      [] d.kind = "character" ->
            { IF c = "abort" THEN Outcome("crash", cur)
              ELSE IF validate(d, StrV(<<c>>)) THEN Store(d, cur, StrV(<<c>>))
              ELSE Outcome("throw", cur) : c \in Front(val) }
      [] d.kind = "integral" ->
            LET r == from_chars_int(val)
            IN  IF r.ec = "ok" /\ validate(d, r.value)
                THEN {Store(d, cur, r.value)}
                ELSE {Outcome("throw", cur)}
      [] d.kind = "unsigned" ->
            LET r == from_chars_uint(val)
            IN  IF r.ec = "ok" /\ validate(d, r.value)
                THEN {Store(d, cur, r.value)}
                ELSE {Outcome("throw", cur)}
      [] d.kind = "floating" ->
            LET r == from_chars_float(val)
            IN  IF r.ec = "ok" /\ validate(d, r.value)
                THEN {Store(d, cur, r.value)}
                ELSE {Outcome("throw", cur)}

\* the calls of _match_func in validate(x): one call when a predicate is set
validate_calls(d, x) == IF d._match_func = NoPred THEN <<>> ELSE <<x>>

\* the values _match_func is called with, in order, in an assign(val) that
\* ends with outcome o: the set of possible sequences
invoked(d, val, o) ==
    CASE d.kind = "bool" -> {<<>>}
      [] d.kind \in {"string", "path"} ->
            \* validate(*_ptr), after the write
            IF d._ptr = nullptr THEN {<<>>} ELSE {validate_calls(d, StrV(val))}
      [] d.kind = "character" ->
            \* validate(val.front()): an aborted read calls nothing
            { IF c = "abort" THEN <<>> ELSE validate_calls(d, StrV(<<c>>))
              : c \in IF o.st = "crash" /\ d._ptr # nullptr THEN {"abort"}
                      ELSE Front(val) \ {"abort"} }
      [] d.kind = "integral" ->
            \* ec == errc{} && validate(temp_v)
            LET r == from_chars_int(val)
            IN  {IF r.ec = "ok" THEN validate_calls(d, r.value) ELSE <<>>}
      [] d.kind = "unsigned" ->
            LET r == from_chars_uint(val)
            IN  {IF r.ec = "ok" THEN validate_calls(d, r.value) ELSE <<>>}
      [] d.kind = "floating" ->
            LET r == from_chars_float(val)
            IN  {IF r.ec = "ok" THEN validate_calls(d, r.value) ELSE <<>>}

\* void operator=(Tp val): the typed assignment checks the allow-list only
assign_value(d, cur, val) ==
    IF d._match_list = {} \/ val \in d._match_list
    THEN Store(d, cur, val)
    ELSE Outcome("throw", cur)

(***************************************************************************)
(* basic_clipper: the state of one parser instance, the caller's           *)
(* variables, and the frame of the parse call in progress.                 *)
(***************************************************************************)
VARIABLES
    any_req,         \* option_base::any_req, the static count of req() calls
    _names,          \* name -> index into _options (0 based)
    _options,        \* the descriptors, in registration order
    _help_flag,      \* [name, alt_name, hndl]: the help flag
    _version_flag,   \* [name, alt_name, hndl]: the version flag
    _args_count,     \* argc of the last parse call
    _allow_no_args,
    _wrong,          \* the error list
    mem,             \* the caller's variables of the options: slot -> value
    help_v,          \* the caller's variable of the help flag
    version_v,       \* the caller's variable of the version flag
    pc,              \* "build", "loop" (in parse's main loop), "done", "crashed";
                     \* "option", "returned", "thrown" for a lone descriptor
    args,            \* parse: the queue of tokens
    err,             \* parse: bool err
    req_count,       \* parse: the working copy of any_req
    argv,            \* the tokens of the current or last parse call
    ret,             \* the value the last parse call returned
    pre,             \* the caller's variables and _wrong when the call began
    ncalls,          \* calls (parse, or assign on a lone descriptor) begun so far
    call             \* the last call logged: [fn, arg, out], the function, its
                     \* argument and what it returned (req: fn, the index of the
                     \* descriptor, the count of req() calls on it so far)

vars == <<any_req, _names, _options, _help_flag, _version_flag, _args_count,
          _allow_no_args, _wrong, mem, help_v, version_v, pc, args, err,
          req_count, argv, ret, pre, ncalls, call>>

registry == <<any_req, _names, _options, _help_flag, _version_flag, _allow_no_args>>

\* an entry of _wrong: the kind of the message and what it is built from
Wrong(kind, arg, value, count) == [kind |-> kind, arg |-> arg, value |-> value, count |-> count]
UnknownArgument(arg) == Wrong("unknown argument", arg, NoName, 0)
MissingValue(name) == Wrong("missing option value", name, NoName, 0)
NotAllowed(name, value) == Wrong("value not allowed", name, value, 0)
\* count is the size_t req_count; a negative count stands for 2^64 + count
MissingRequired(count) == Wrong("missing required", NoName, NoName, count)

\* the unnamed struct of _help_flag and _version_flag after construction
NoInfoFlag == [name |-> NoName, alt_name |-> NoName, hndl |-> option("bool", NoName, NoName)]

\* mutant: the alternate name is not compared
info_flag_eq_NameOnly(f, str) == f.name = str

\* bool operator==(string_view_type str) of that struct
info_flag_eq(f, str) == f.name = str \/ f.alt_name = str

\* _names[name] = _options.size() (and the same for alt_name)
names_insert(nm, name, alt_name, size) ==
    LET keys == IF alt_name = NoName THEN {name} ELSE {name, alt_name}
    IN  [k \in DOMAIN nm \cup keys |-> IF k \in keys THEN size ELSE nm[k]]

EmptyNames == [k \in {} |-> 0]

(***************************************************************************)
(* parse: the frame [args, err, req_count, wrong, mem, st] and the steps   *)
(* of the main loop on it.  st is "run", or "crash" after a write through  *)
(* nullptr.                                                                *)
(***************************************************************************)
\* mutant: the write goes to the first variable, whatever the descriptor
Written_First(m, d, o) == IF d._ptr = nullptr THEN m ELSE [m EXCEPT ![1] = o.value]

Deref(m, d) == IF d._ptr = nullptr THEN ValueInit(d.kind) ELSE m[d._ptr]
Written(m, d, o) == IF d._ptr = nullptr THEN m ELSE [m EXCEPT ![d._ptr] = o.value]

\* req_count--, on a size_t: below zero the value wraps to 2^64 - 1, which the
\* model writes -1
Decrement(c) == c - 1

\* mutant: a value option without a value is passed over without an entry
set_option_NoMissing(F) ==
    LET temp_option_name == Head(F.args)
        opt == _options[_names[temp_option_name] + 1]
        popped == [F EXCEPT !.args = Tail(@)]
    IN  IF opt.kind = "bool"
        THEN LET o == Store(opt, Deref(F.mem, opt), BoolV(TRUE))
             IN  {[popped EXCEPT !.mem = Written(@, opt, o),
                                 !.st = IF o.st = "crash" THEN "crash" ELSE @]}
        ELSE IF popped.args = <<>>
        THEN {[popped EXCEPT !.err = TRUE]}
        ELSE LET value == Head(popped.args)
             IN  { IF o.st = "crash" THEN [popped EXCEPT !.st = "crash"]
                   ELSE IF o.st = "throw"
                   THEN [popped EXCEPT !.mem = Written(@, opt, o),
                                       !.wrong = Append(@, NotAllowed(temp_option_name, value)),
                                       !.err = TRUE,
                                       !.args = Tail(@)]
                   ELSE [popped EXCEPT !.mem = Written(@, opt, o), !.args = Tail(@)]
                   : o \in assign(opt, Deref(F.mem, opt), value) }

\* mutant: a rejected value stays in the queue
set_option_KeepRejected(F) ==
    LET temp_option_name == Head(F.args)
        opt == _options[_names[temp_option_name] + 1]
        popped == [F EXCEPT !.args = Tail(@)]
    IN  IF opt.kind = "bool"
        THEN LET o == Store(opt, Deref(F.mem, opt), BoolV(TRUE))
             IN  {[popped EXCEPT !.mem = Written(@, opt, o),
                                 !.st = IF o.st = "crash" THEN "crash" ELSE @]}
        ELSE IF popped.args = <<>>
        THEN {[popped EXCEPT !.wrong = Append(@, MissingValue(temp_option_name)),
                             !.err = TRUE]}
        ELSE LET value == Head(popped.args)
             IN  { IF o.st = "crash" THEN [popped EXCEPT !.st = "crash"]
                   ELSE IF o.st = "throw"
                   THEN [popped EXCEPT !.mem = Written(@, opt, o),
                                       !.wrong = Append(@, NotAllowed(temp_option_name, value)),
                                       !.err = TRUE]
                   ELSE [popped EXCEPT !.mem = Written(@, opt, o), !.args = Tail(@)]
                   : o \in assign(opt, Deref(F.mem, opt), value) }

\* void set_option(queue& args, bool& error)
set_option(F) ==
    LET temp_option_name == Head(F.args)
        opt == _options[_names[temp_option_name] + 1]
        popped == [F EXCEPT !.args = Tail(@)]
    IN  IF opt.kind = "bool"
        THEN LET o == Store(opt, Deref(F.mem, opt), BoolV(TRUE))
             IN  {[popped EXCEPT !.mem = Written(@, opt, o),
                                 !.st = IF o.st = "crash" THEN "crash" ELSE @]}
        ELSE IF popped.args = <<>>
        THEN {[popped EXCEPT !.wrong = Append(@, MissingValue(temp_option_name)),
                             !.err = TRUE]}
        ELSE LET value == Head(popped.args)
             IN  { IF o.st = "crash" THEN [popped EXCEPT !.st = "crash"]
                   ELSE IF o.st = "throw"
                   THEN [popped EXCEPT !.mem = Written(@, opt, o),
                                       !.wrong = Append(@, NotAllowed(temp_option_name, value)),
                                       !.err = TRUE,
                                       !.args = Tail(@)]
                   ELSE [popped EXCEPT !.mem = Written(@, opt, o), !.args = Tail(@)]
                   : o \in assign(opt, Deref(F.mem, opt), value) }

\* mutant: a required option counts only when its value was taken without an
\* error entry
loop_body_CountValued(F) ==
    LET front == Head(F.args)
    IN  IF front \in DOMAIN _names
        THEN { IF _options[_names[front] + 1]._req /\ Len(G.wrong) = Len(F.wrong)
               THEN [G EXCEPT !.req_count = Decrement(@)]
               ELSE G : G \in set_option(F) }
        ELSE {[F EXCEPT !.wrong = Append(@, UnknownArgument(front)),
                        !.err = TRUE,
                        !.args = Tail(@)]}

\* mutant: an unknown argument is reported and stays at the front
loop_body_NoPop(F) ==
    LET front == Head(F.args)
    IN  IF front \in DOMAIN _names
        THEN set_option(IF _options[_names[front] + 1]._req
                        THEN [F EXCEPT !.req_count = Decrement(@)]
                        ELSE F)
        ELSE {[F EXCEPT !.wrong = Append(@, UnknownArgument(front)),
                        !.err = TRUE]}

\* mutant: an unknown argument ends the scan
loop_body_Abort(F) ==
    LET front == Head(F.args)
    IN  IF front \in DOMAIN _names
        THEN set_option(IF _options[_names[front] + 1]._req
                        THEN [F EXCEPT !.req_count = Decrement(@)]
                        ELSE F)
        ELSE {[F EXCEPT !.wrong = Append(@, UnknownArgument(front)),
                        !.err = TRUE,
                        !.args = <<>>]}

\* one iteration of while (not args.empty())
loop_body(F) ==
    LET front == Head(F.args)
    IN  IF front \in DOMAIN _names
        THEN set_option(IF _options[_names[front] + 1]._req
                        THEN [F EXCEPT !.req_count = Decrement(@)]
                        ELSE F)
        ELSE {[F EXCEPT !.wrong = Append(@, UnknownArgument(front)),
                        !.err = TRUE,
                        !.args = Tail(@)]}

\* mutant: the missing required entry is appended and err is left as it is
finish_ErrNotSet(F) ==
    IF F.req_count # 0
    THEN [F EXCEPT !.wrong = Append(@, MissingRequired(F.req_count))]
    ELSE F

\* after the loop: if (req_count) {...}  return !err;
finish(F) ==
    IF F.req_count # 0
    THEN [F EXCEPT !.wrong = Append(@, MissingRequired(F.req_count)), !.err = TRUE]
    ELSE F

\* the frames parse can end its main loop and required check with, from F
RECURSIVE run(_)
run(F) ==
    IF F.st = "crash" THEN {F}
    ELSE IF F.args = <<>> THEN {finish(F)}
    ELSE UNION {run(G) : G \in loop_body(F)}

(***************************************************************************)
(* The state after construction of a parser (basic_clipper() = default).   *)
(***************************************************************************)
\* no call logged
NoCall == [fn |-> "", arg |-> <<>>, out |-> <<>>]

NoSnapshot == [mem |-> <<>>, help_v |-> FALSE, version_v |-> FALSE, wrong |-> <<>>]

Init ==
    /\ any_req = 0
    /\ _names = EmptyNames
    /\ _options = <<>>
    /\ _help_flag = NoInfoFlag
    /\ _version_flag = NoInfoFlag
    /\ _args_count = 0
    /\ _allow_no_args = FALSE
    /\ _wrong = <<>>
    /\ mem = <<>>
    /\ help_v = FALSE
    /\ version_v = FALSE
    /\ pc = "build"
    /\ args = <<>>
    /\ err = FALSE
    /\ req_count = 0
    /\ argv = <<>>
    /\ ret = FALSE
    /\ pre = NoSnapshot
    /\ ncalls = 0
    /\ call = NoCall

(***************************************************************************)
(* The build phase.                                                        *)
(***************************************************************************)
\* the default the caller passes to set(value_name, ref, def)
DefaultOf(kind) == IF kind = "integral" THEN IntV(3) ELSE ValueInit(kind)

\* add_option<Tp>(name[, alt_name]).set(value_name, ref, def) and
\* add_flag(name[, alt_name]).set(ref): the new descriptor is bound to a new
\* variable of the caller, which set() initialises
AddOption(kind, name, alt_name) ==
    /\ pc = "build"
    /\ Len(_options) < MaxOptions
    /\ _names' = names_insert(_names, name, alt_name, Len(_options))
    /\ _options' = Append(_options, set(option(kind, name, alt_name), Len(mem) + 1))
    /\ mem' = Append(mem, DefaultOf(kind))
    /\ UNCHANGED <<any_req, _help_flag, _version_flag, _args_count, _allow_no_args,
                   _wrong, help_v, version_v, pc, args, err, req_count, argv,
                   ret, pre, ncalls, call>>

\* .req() on the descriptor just added
Req ==
    /\ pc = "build"
    /\ _options # <<>>
    /\ ~_options[Len(_options)]._req
    /\ _options' = [_options EXCEPT ![Len(_options)] = req(@)]
    /\ any_req' = any_req_incr(_options[Len(_options)], any_req)
    /\ UNCHANGED <<_names, _help_flag, _version_flag, _args_count, _allow_no_args,
                   _wrong, mem, help_v, version_v, pc, args, err, req_count,
                   argv, ret, pre, ncalls, call>>

\* help_flag(name, alt_name): the struct part
help_flag(f, name, alt_name) == [f EXCEPT !.name = name, !.alt_name = alt_name]

\* help_flag(name[, alt_name]).set(help_v)
HelpFlag(name, alt_name) ==
    /\ pc = "build"
    /\ _help_flag = NoInfoFlag
    /\ _help_flag' = [help_flag(_help_flag, name, alt_name) EXCEPT !.hndl = set(@, 1)]
    /\ help_v' = FALSE
    /\ UNCHANGED <<any_req, _names, _options, _version_flag, _args_count,
                   _allow_no_args, _wrong, mem, version_v, pc, args, err,
                   req_count, argv, ret, pre, ncalls, call>>

\* version_flag(name[, alt_name]).set(version_v)
VersionFlag(name, alt_name) ==
    /\ pc = "build"
    /\ _version_flag = NoInfoFlag
    /\ _version_flag' = [help_flag(_version_flag, name, alt_name) EXCEPT !.hndl = set(@, 1)]
    /\ version_v' = FALSE
    /\ UNCHANGED <<any_req, _names, _options, _help_flag, _args_count,
                   _allow_no_args, _wrong, mem, help_v, pc, args, err,
                   req_count, argv, ret, pre, ncalls, call>>

\* allow_no_args()
AllowNoArgs ==
    /\ pc = "build"
    /\ ~_allow_no_args
    /\ _allow_no_args' = TRUE
    /\ UNCHANGED <<any_req, _names, _options, _help_flag, _version_flag,
                   _args_count, _wrong, mem, help_v, version_v, pc, args, err,
                   req_count, argv, ret, pre, ncalls, call>>

(***************************************************************************)
(* bool parse(int argc, const CharT* const* argv)                          *)
(***************************************************************************)
Frame == [args |-> args, err |-> err, req_count |-> req_count,
          wrong |-> _wrong, mem |-> mem, st |-> "run"]

\* the frame of a parse call of this parser on tokens, at the main loop
FrameOf(tokens) == [args |-> tokens, err |-> FALSE, req_count |-> any_req,
                    wrong |-> _wrong, mem |-> mem, st |-> "run"]

\* mutant: help and version are taken from the first token of any stream
Prologue_AnySize(tokens) ==
    IF _allow_no_args /\ Len(tokens) + 1 = 1 THEN "no_args"
    ELSE IF Len(tokens) >= 1 /\ info_flag_eq(_help_flag, Head(tokens)) THEN "help"
    ELSE IF Len(tokens) >= 1 /\ info_flag_eq(_version_flag, Head(tokens)) THEN "version"
    ELSE "loop"

\* mutant: _allow_no_args is not looked at
Prologue_NoAllow(tokens) ==
    IF Len(tokens) = 1 /\ info_flag_eq(_help_flag, Head(tokens)) THEN "help"
    ELSE IF Len(tokens) = 1 /\ info_flag_eq(_version_flag, Head(tokens)) THEN "version"
    ELSE "loop"

\* which way parse leaves its prologue on tokens
Prologue(tokens) ==
    IF _allow_no_args /\ Len(tokens) + 1 = 1 THEN "no_args"
    ELSE IF Len(tokens) = 1 /\ info_flag_eq(_help_flag, Head(tokens)) THEN "help"
    ELSE IF Len(tokens) = 1 /\ info_flag_eq(_version_flag, Head(tokens)) THEN "version"
    ELSE "loop"

\* parse up to the main loop: the call with argc = Len(tokens) + 1
ParseBegin(tokens) ==
    /\ _args_count' = Len(tokens) + 1
    /\ argv' = tokens
    /\ ncalls' = ncalls + 1
    /\ pre' = [mem |-> mem, help_v |-> help_v, version_v |-> version_v, wrong |-> _wrong]
    /\ err' = FALSE
    /\ LET way == Prologue(tokens)
       IN  /\ args' = IF way = "no_args" THEN <<>> ELSE tokens
           /\ req_count' = IF way = "no_args" THEN 0 ELSE any_req
           /\ help_v' = IF way = "help" /\ _help_flag.hndl._ptr # nullptr THEN TRUE ELSE help_v
           /\ version_v' = IF way = "version" /\ _version_flag.hndl._ptr # nullptr
                           THEN TRUE ELSE version_v
           /\ pc' = CASE way = "loop" -> "loop"
                      [] way = "help" /\ _help_flag.hndl._ptr = nullptr -> "crashed"
                      [] way = "version" /\ _version_flag.hndl._ptr = nullptr -> "crashed"
                      [] OTHER -> "done"
           /\ ret' = IF way = "loop" THEN ret ELSE TRUE
    /\ UNCHANGED <<registry, _wrong, mem, call>>

\* the first parse call on the parser
FirstParse ==
    /\ pc = "build"
    /\ \E tokens \in SeqsUpTo(Tokens, MaxArgs) : ParseBegin(tokens)

\* one iteration of the main loop
ParseLoop ==
    /\ pc = "loop"
    /\ args # <<>>
    /\ \E G \in loop_body(Frame) :
          /\ args' = G.args
          /\ err' = G.err
          /\ req_count' = G.req_count
          /\ _wrong' = G.wrong
          /\ mem' = G.mem
          /\ pc' = IF G.st = "crash" THEN "crashed" ELSE "loop"
    /\ UNCHANGED <<registry, _args_count, help_v, version_v, argv, ret, pre, ncalls, call>>

\* the required check and the return
ParseReturn ==
    /\ pc = "loop"
    /\ args = <<>>
    /\ LET G == finish(Frame)
       IN  /\ _wrong' = G.wrong
           /\ err' = G.err
           /\ ret' = ~G.err
    /\ pc' = "done"
    /\ UNCHANGED <<registry, _args_count, mem, help_v, version_v, args,
                   req_count, argv, pre, ncalls, call>>

Build ==
    \/ \E r \in Registrations : AddOption(r[1], r[2], r[3])
    \/ Req
    \/ \E p \in HelpPairs : HelpFlag(p[1], p[2])
    \/ \E p \in VersionPairs : VersionFlag(p[1], p[2])
    \/ AllowNoArgs

Next == Build \/ FirstParse \/ ParseLoop \/ ParseReturn

Spec == Init /\ [][Next]_vars

(***************************************************************************)
(* Repeated parse calls on one parser.  The parser is the one built by     *)
(*   add_option<short>("-a").set(..., 3).req();  add_flag("-b").set(...);  *)
(*   help_flag("-h").set(...);                                             *)
(* with or without allow_no_args().                                        *)
(***************************************************************************)
RepeatTokens == {tok_a, tok_b, tok_h, tok_7}

InitRepeat ==
    /\ any_req = 1
    /\ _names = names_insert(names_insert(EmptyNames, tok_a, NoName, 0), tok_b, NoName, 1)
    /\ _options = <<req(set(option("integral", tok_a, NoName), 1)),
                    set(option("bool", tok_b, NoName), 2)>>
    /\ _help_flag = [help_flag(NoInfoFlag, tok_h, NoName) EXCEPT !.hndl = set(@, 1)]
    /\ _version_flag = NoInfoFlag
    /\ _args_count = 0
    /\ _allow_no_args \in BOOLEAN
    /\ _wrong = <<>>
    /\ mem = <<DefaultOf("integral"), DefaultOf("bool")>>
    /\ help_v = FALSE
    /\ version_v = FALSE
    /\ pc = "build"
    /\ args = <<>>
    /\ err = FALSE
    /\ req_count = 0
    /\ argv = <<>>
    /\ ret = FALSE
    /\ pre = NoSnapshot
    /\ ncalls = 0
    /\ call = NoCall

\* a parse call on the parser, the first one or one after a call returned
Parse ==
    /\ pc \in {"build", "done"}
    /\ ncalls < MaxCalls
    /\ \E tokens \in SeqsUpTo(RepeatTokens, MaxArgs) : ParseBegin(tokens)

NextRepeat == Parse \/ ParseLoop \/ ParseReturn

SpecRepeat == InitRepeat /\ [][NextRepeat]_vars

\* one parse call on that parser.  parse is sequential code: a call that is
\* in its main loop takes its next iteration, and leaves the loop when the
\* queue is empty
SpecOnceFair ==
    /\ InitRepeat /\ [][FirstParse \/ ParseLoop \/ ParseReturn]_vars
    /\ WF_vars(ParseLoop) /\ WF_vars(ParseReturn)

(***************************************************************************)
(* The same parser in a program that has other parser instances: req() on  *)
(* a descriptor of another instance is a call of the program too, and      *)
(* any_req is a static member that all instances share.                    *)
(***************************************************************************)
\* the number of descriptors of this parser's registry that are required
RequiredTotal == Cardinality({i \in DOMAIN _options : _options[i]._req})

\* req() on a descriptor that another parser instance holds
ForeignReq ==
    /\ pc \in {"build", "done"}
    /\ any_req < RequiredTotal + MaxForeign
    /\ any_req' = any_req_incr(option("bool", tok_b, NoName), any_req)
    /\ UNCHANGED <<_names, _options, _help_flag, _version_flag, _args_count,
                   _allow_no_args, _wrong, mem, help_v, version_v, pc, args, err,
                   req_count, argv, ret, pre, ncalls, call>>

NextShared == ForeignReq \/ Parse \/ ParseLoop \/ ParseReturn

SpecShared == InitRepeat /\ [][NextShared]_vars

(***************************************************************************)
(* A build phase in which req() is called any number of times on the       *)
(* descriptor just added, and one parse call.                              *)
(***************************************************************************)
\* the count of req() calls the log holds for descriptor i
ReqCalls(i) == IF call.fn = "req" /\ call.arg = i THEN call.out ELSE 0

\* .req() on the descriptor just added, required already or not
ReqAgain ==
    /\ pc = "build"
    /\ _options # <<>>
    /\ ReqCalls(Len(_options)) < MaxReq
    /\ _options' = [_options EXCEPT ![Len(_options)] = req(@)]
    /\ any_req' = any_req_incr(_options[Len(_options)], any_req)
    /\ call' = [fn |-> "req", arg |-> Len(_options), out |-> ReqCalls(Len(_options)) + 1]
    /\ UNCHANGED <<_names, _help_flag, _version_flag, _args_count, _allow_no_args,
                   _wrong, mem, help_v, version_v, pc, args, err, req_count,
                   argv, ret, pre, ncalls>>

NextReq ==
    \/ \E r \in Registrations : AddOption(r[1], r[2], r[3])
    \/ ReqAgain
    \/ FirstParse
    \/ ParseLoop
    \/ ParseReturn

SpecReq == Init /\ [][NextReq]_vars

(***************************************************************************)
(* One value descriptor on its own, as the caller of option<Tp> uses it:   *)
(* option<Tp>("-a").set(value_name, ref, def), then match(...) and         *)
(* validate(doc, pred), then assign(token) calls.  pc is "option" until    *)
(* the first assign and then tells how the last assign ended: "returned",  *)
(* "thrown" or "crashed".                                                  *)
(***************************************************************************)
OptionKinds == {"integral", "unsigned", "floating", "character", "string", "path"}

\* the tokens assign is called with
OptionTokens == {<<"7">>, <<"1", "2">>, <<"1", ".", "5">>, <<"x">>, <<"B">>, <<"x", "y">>, <<>>,
                 <<"-", "7">>, <<"4", "0", "0", "0", "0">>, <<"7", "0", "0", "0", "0">>,
                 <<"-", "4", "0", "0", "0", "0">>}

\* the default set(value_name, ref, def) is called with
OptionDefault(kind) ==
    CASE kind \in {"integral", "unsigned"} -> IntV(3)
      [] kind = "floating" -> DecV(25, 1)
      [] kind = "character" -> StrV(<<"d">>)
      [] OTHER -> StrV(<<"d", "e", "f">>)

\* the value lists match is called with
MatchLists(kind) ==
    CASE kind \in {"integral", "unsigned"} -> {{IntV(7)}, {IntV(7), IntV(12)}}
      [] kind = "floating" -> {{DecV(15, 1)}, {IntV(7), DecV(15, 1)}}
      [] kind = "character" -> {{StrV(<<"x">>)}, {StrV(<<"B">>)}}
      [] OTHER -> {{StrV(<<"x", "y">>)}, {StrV(<<"x">>), StrV(<<"7">>)}}

\* the predicates validate(doc, pred) is called with
Predicates(kind) ==
    CASE kind \in {"integral", "unsigned", "floating"} ->
            {Pred2("between", IntV(5), IntV(10)), Pred1("igreater_than", IntV(12))}
      [] kind = "character" -> {Pred1("lower_case", IntV(0))}
      [] OTHER -> {Pred1("lower_case", IntV(0)), Pred1("shorter_than", IntV(2))}

InitOption ==
    /\ any_req = 0
    /\ _names = EmptyNames
    /\ \E kind \in OptionKinds :
          /\ _options = <<set(option(kind, tok_a, NoName), 1)>>
          /\ mem = <<OptionDefault(kind)>>
    /\ _help_flag = NoInfoFlag
    /\ _version_flag = NoInfoFlag
    /\ _args_count = 0
    /\ _allow_no_args = FALSE
    /\ _wrong = <<>>
    /\ help_v = FALSE
    /\ version_v = FALSE
    /\ pc = "option"
    /\ args = <<>>
    /\ err = FALSE
    /\ req_count = 0
    /\ argv = <<>>
    /\ ret = FALSE
    /\ pre = NoSnapshot
    /\ ncalls = 0
    /\ call = NoCall

\* .match(val...) on the descriptor
Match ==
    /\ pc \in {"option", "build"}
    /\ _options[1]._match_list = {}
    /\ \E vals \in MatchLists(_options[1].kind) :
          _options' = [_options EXCEPT ![1] = match(@, vals)]
    /\ UNCHANGED <<any_req, _names, _help_flag, _version_flag, _args_count,
                   _allow_no_args, _wrong, mem, help_v, version_v, pc, args, err,
                   req_count, argv, ret, pre, ncalls, call>>

\* .validate(doc, pred) on the descriptor
Require ==
    /\ pc \in {"option", "build"}
    /\ _options[1]._match_func = NoPred
    /\ \E pred \in Predicates(_options[1].kind) :
          _options' = [_options EXCEPT ![1] = require(@, pred)]
    /\ UNCHANGED <<any_req, _names, _help_flag, _version_flag, _args_count,
                   _allow_no_args, _wrong, mem, help_v, version_v, pc, args, err,
                   req_count, argv, ret, pre, ncalls, call>>

\* .assign(token) on the descriptor; the log holds the token and the values
\* the predicate was called with
Assign ==
    /\ pc \in {"option", "returned", "thrown"}
    /\ ncalls < MaxCalls
    /\ \E token \in OptionTokens :
          \E o \in assign(_options[1], mem[1], token) :
              /\ argv' = <<token>>
              /\ mem' = Written(mem, _options[1], o)
              /\ pc' = CASE o.st = "ok" -> "returned"
                         [] o.st = "throw" -> "thrown"
                         [] OTHER -> "crashed"
              /\ \E seen \in invoked(_options[1], token, o) :
                    call' = [fn |-> "_match_func", arg |-> token, out |-> seen]
    /\ ncalls' = ncalls + 1
    /\ pre' = [mem |-> mem, help_v |-> help_v, version_v |-> version_v, wrong |-> _wrong]
    /\ UNCHANGED <<registry, _args_count, _wrong, help_v, version_v, args, err,
                   req_count, ret>>

NextOption == Match \/ Require \/ Assign

SpecOption == InitOption /\ [][NextOption]_vars

(***************************************************************************)
(* The same descriptor with typed assignments: option = value, a call of   *)
(* operator=(Tp), after match(...) and validate(doc, pred).  The log holds *)
(* the value assigned.                                                     *)
(***************************************************************************)
\* the values operator=(Tp) is called with
TypedValues(kind) ==
    CASE kind \in {"integral", "unsigned"} -> {IntV(7), IntV(12)}
      [] kind = "floating" -> {IntV(7), DecV(15, 1)}
      [] kind = "character" -> {StrV(<<"x">>), StrV(<<"B">>)}
      [] OTHER -> {StrV(<<"x">>), StrV(<<"x", "y">>), StrV(<<"B">>)}

\* option = val, with val of type Tp
AssignValue ==
    /\ pc \in {"option", "returned", "thrown"}
    /\ ncalls < MaxCalls
    /\ \E val \in TypedValues(_options[1].kind) :
          LET o == assign_value(_options[1], mem[1], val)
          IN  /\ mem' = Written(mem, _options[1], o)
              /\ pc' = CASE o.st = "ok" -> "returned"
                         [] o.st = "throw" -> "thrown"
                         [] OTHER -> "crashed"
              /\ call' = [fn |-> "operator=", arg |-> val, out |-> <<>>]
    /\ ncalls' = ncalls + 1
    /\ pre' = [mem |-> mem, help_v |-> help_v, version_v |-> version_v, wrong |-> _wrong]
    /\ UNCHANGED <<registry, _args_count, _wrong, help_v, version_v, args, err,
                   req_count, argv, ret>>

SpecTyped == InitOption /\ [][Match \/ Require \/ AssignValue]_vars

(***************************************************************************)
(* One descriptor and its const accessors: option<Tp>(nm) or               *)
(* option<Tp>(nm, anm) with set(...), then one match(val...) call and      *)
(* calls of value_info(), synopsis() and detailed_synopsis().  The log     *)
(* holds in arg the values match was called with, in the order they were   *)
(* passed, and in out the string the last accessor returned.               *)
(***************************************************************************)
\* the names the descriptor is constructed with
InfoNames == {<<tok_a, NoName>>, <<tok_b, tok_a>>}

\* the argument lists match is called with
MatchArgs(kind) ==
    CASE kind \in {"integral", "unsigned"} ->
            {<<IntV(7), IntV(12)>>, <<IntV(12), IntV(7)>>, <<IntV(12), IntV(7), IntV(12)>>}
      [] kind = "floating" ->
            {<<IntV(7), DecV(15, 1)>>, <<DecV(15, 1), IntV(7)>>, <<DecV(15, 1)>>}
      [] kind = "character" ->
            {<<StrV(<<"B">>), StrV(<<"x">>)>>, <<StrV(<<"x">>), StrV(<<"B">>)>>,
             <<StrV(<<"x">>)>>}
      [] OTHER ->
            {<<StrV(<<"x">>), StrV(<<"x", "y">>)>>, <<StrV(<<"x", "y">>), StrV(<<"x">>)>>,
             <<StrV(<<"x", "y">>), StrV(<<"7">>), StrV(<<"x", "y">>)>>}

InitInfo ==
    /\ any_req = 0
    /\ _names = EmptyNames
    /\ \E kind \in OptionKinds \cup {"bool"}, nm \in InfoNames :
          /\ _options = <<set(option(kind, nm[1], nm[2]), 1)>>
          /\ mem = <<IF kind = "bool" THEN BoolV(FALSE) ELSE OptionDefault(kind)>>
    /\ _help_flag = NoInfoFlag
    /\ _version_flag = NoInfoFlag
    /\ _args_count = 0
    /\ _allow_no_args = FALSE
    /\ _wrong = <<>>
    /\ help_v = FALSE
    /\ version_v = FALSE
    /\ pc = "option"
    /\ args = <<>>
    /\ err = FALSE
    /\ req_count = 0
    /\ argv = <<>>
    /\ ret = FALSE
    /\ pre = NoSnapshot
    /\ ncalls = 0
    /\ call = NoCall

\* .match(val...) with the values in the order of vs
MatchInOrder ==
    /\ pc = "option"
    /\ _options[1].kind # "bool"
    /\ _options[1]._match_list = {}
    /\ \E vs \in MatchArgs(_options[1].kind) :
          /\ _options' = [_options EXCEPT ![1] = match(@, {vs[i] : i \in DOMAIN vs})]
          /\ call' = [fn |-> "match", arg |-> vs, out |-> <<>>]
    /\ UNCHANGED <<any_req, _names, _help_flag, _version_flag, _args_count,
                   _allow_no_args, _wrong, mem, help_v, version_v, pc, args, err,
                   req_count, argv, ret, pre, ncalls>>

\* a call of the accessor fn that returns out
Accessor(fn, out) ==
    /\ pc = "option"
    /\ call' = [fn |-> fn, arg |-> call.arg, out |-> out]
    /\ UNCHANGED <<any_req, _names, _options, _help_flag, _version_flag, _args_count,
                   _allow_no_args, _wrong, mem, help_v, version_v, pc, args, err,
                   req_count, argv, ret, pre, ncalls>>

ValueInfo == Accessor("value_info", value_info(_options[1]))
Synopsis == Accessor("synopsis", synopsis(_options[1]))
DetailedSynopsis == Accessor("detailed_synopsis", detailed_synopsis(_options[1]))

NextInfo == MatchInOrder \/ ValueInfo \/ Synopsis \/ DetailedSynopsis

SpecInfo == InitInfo /\ [][NextInfo]_vars

(***************************************************************************)
(* CLI::pred: the predicate templates called on integers.  The log holds   *)
(* in arg the template arguments V1 (or V) and V2 and the argument val, in *)
(* out what the last call returned.                                        *)
(***************************************************************************)
InitPred ==
    /\ any_req = 0
    /\ _names = EmptyNames
    /\ _options = <<>>
    /\ _help_flag = NoInfoFlag
    /\ _version_flag = NoInfoFlag
    /\ _args_count = 0
    /\ _allow_no_args = FALSE
    /\ _wrong = <<>>
    /\ mem = <<>>
    /\ help_v = FALSE
    /\ version_v = FALSE
    /\ pc = "pred"
    /\ args = <<>>
    /\ err = FALSE
    /\ req_count = 0
    /\ argv = <<>>
    /\ ret = FALSE
    /\ pre = NoSnapshot
    /\ ncalls = 0
    /\ \E V1 \in (0 - MaxV)..MaxV, V2 \in (0 - MaxV)..MaxV, val \in (0 - MaxV)..MaxV :
          call = [fn |-> "", arg |-> <<V1, V2, val>>, out |-> <<>>]

\* the parts of the state no predicate call changes
PredFrame ==
    UNCHANGED <<any_req, _names, _options, _help_flag, _version_flag, _args_count,
                _allow_no_args, _wrong, mem, help_v, version_v, pc, args, err,
                req_count, argv, ret, pre, ncalls>>

\* between<V1, V2>(val); static_assert(V1 < V2)
Between ==
    /\ pc = "pred"
    /\ call.arg[1] < call.arg[2]
    /\ call' = [call EXCEPT !.fn = "between",
                  !.out = between(IntV(call.arg[1]), IntV(call.arg[2]), IntV(call.arg[3]))]
    /\ PredFrame

\* ibetween<V1, V2>(val); static_assert(V1 < V2)
IBetween ==
    /\ pc = "pred"
    /\ call.arg[1] < call.arg[2]
    /\ call' = [call EXCEPT !.fn = "ibetween",
                  !.out = ibetween(IntV(call.arg[1]), IntV(call.arg[2]), IntV(call.arg[3]))]
    /\ PredFrame

\* greater_than<V>(val)
GreaterThan ==
    /\ pc = "pred"
    /\ call' = [call EXCEPT !.fn = "greater_than",
                  !.out = greater_than(IntV(call.arg[1]), IntV(call.arg[3]))]
    /\ PredFrame

\* igreater_than<V>(val)
IGreaterThan ==
    /\ pc = "pred"
    /\ call' = [call EXCEPT !.fn = "igreater_than",
                  !.out = igreater_than(IntV(call.arg[1]), IntV(call.arg[3]))]
    /\ PredFrame

\* less_than<V>(val)
LessThan ==
    /\ pc = "pred"
    /\ call' = [call EXCEPT !.fn = "less_than",
                  !.out = less_than(IntV(call.arg[1]), IntV(call.arg[3]))]
    /\ PredFrame

\* iless_than<V>(val)
ILessThan ==
    /\ pc = "pred"
    /\ call' = [call EXCEPT !.fn = "iless_than",
                  !.out = iless_than(IntV(call.arg[1]), IntV(call.arg[3]))]
    /\ PredFrame

NextPred == Between \/ IBetween \/ GreaterThan \/ IGreaterThan \/ LessThan \/ ILessThan

SpecPred == InitPred /\ [][NextPred]_vars

(***************************************************************************)
(* A parser with one value option of any option type:                      *)
(*   add_option<Tp>("-a").set(value_name, ref, def)                        *)
(* then match(...), validate(doc, pred) and req() on it, then one parse    *)
(* call.                                                                   *)
(***************************************************************************)
\* the tokens argv is drawn from: the option's name and the value tokens
ValueTokens == OptionTokens \cup {tok_a}

InitValues ==
    /\ any_req = 0
    /\ _names = names_insert(EmptyNames, tok_a, NoName, 0)
    /\ \E kind \in OptionKinds :
          /\ _options = <<set(option(kind, tok_a, NoName), 1)>>
          /\ mem = <<OptionDefault(kind)>>
    /\ _help_flag = NoInfoFlag
    /\ _version_flag = NoInfoFlag
    /\ _args_count = 0
    /\ _allow_no_args = FALSE
    /\ _wrong = <<>>
    /\ help_v = FALSE
    /\ version_v = FALSE
    /\ pc = "build"
    /\ args = <<>>
    /\ err = FALSE
    /\ req_count = 0
    /\ argv = <<>>
    /\ ret = FALSE
    /\ pre = NoSnapshot
    /\ ncalls = 0
    /\ call = NoCall

\* the parse call
ParseValues ==
    /\ pc = "build"
    /\ \E tokens \in SeqsUpTo(ValueTokens, MaxArgs) : ParseBegin(tokens)

NextValues == Match \/ Require \/ Req \/ ParseValues \/ ParseLoop \/ ParseReturn

SpecValues == InitValues /\ [][NextValues]_vars

(***************************************************************************)
(* Parsers on which not every call of the build phase was made:            *)
(*   add_flag("-b")[.set(b)];  add_option<short>("-a")[.set("n", a, 3)];   *)
(* without a help flag, with help_flag("-h") or help_flag("-h", "-H"),     *)
(* the handle with or without .set(help_v); with or without                *)
(* version_flag("-v").set(version_v).  Then one parse call; the empty      *)
(* string is one of the tokens.                                            *)
(***************************************************************************)
BareTokens == {NoName, tok_a, tok_b, tok_h, tok_H, tok_7}

\* the states of the help flag after the build phase
BareHelpFlags ==
    {NoInfoFlag,
     help_flag(NoInfoFlag, tok_h, NoName),
     [help_flag(NoInfoFlag, tok_h, NoName) EXCEPT !.hndl = set(@, 1)],
     [help_flag(NoInfoFlag, tok_h, tok_H) EXCEPT !.hndl = set(@, 1)]}

\* the states of the version flag after the build phase
BareVersionFlags ==
    {NoInfoFlag, [help_flag(NoInfoFlag, tok_v, NoName) EXCEPT !.hndl = set(@, 1)]}

InitBare ==
    /\ any_req = 0
    /\ _names = names_insert(names_insert(EmptyNames, tok_b, NoName, 0), tok_a, NoName, 1)
    /\ \E set_b, set_a \in BOOLEAN :
          _options = <<IF set_b THEN set(option("bool", tok_b, NoName), 1)
                       ELSE option("bool", tok_b, NoName),
                       IF set_a THEN set(option("integral", tok_a, NoName), 2)
                       ELSE option("integral", tok_a, NoName)>>
    /\ mem = <<DefaultOf("bool"), DefaultOf("integral")>>
    /\ _help_flag \in BareHelpFlags
    /\ _version_flag \in BareVersionFlags
    /\ _args_count = 0
    /\ _allow_no_args = FALSE
    /\ _wrong = <<>>
    /\ help_v = FALSE
    /\ version_v = FALSE
    /\ pc = "build"
    /\ args = <<>>
    /\ err = FALSE
    /\ req_count = 0
    /\ argv = <<>>
    /\ ret = FALSE
    /\ pre = NoSnapshot
    /\ ncalls = 0
    /\ call = NoCall

\* the parse call
ParseBare ==
    /\ pc = "build"
    /\ \E tokens \in SeqsUpTo(BareTokens, MaxArgs) : ParseBegin(tokens)

NextBare == ParseBare \/ ParseLoop \/ ParseReturn

SpecBare == InitBare /\ [][NextBare]_vars

(***************************************************************************)
(* Vocabulary of the properties.                                           *)
(***************************************************************************)
\* bool no_args() const
no_args == _args_count = 1

\* the entries of _wrong the current (or last) parse call appended
Appended == SubSeq(_wrong, Len(pre.wrong) + 1, Len(_wrong))

\* the caller's variables are as they were when the call began
TargetsUntouched == mem = pre.mem /\ help_v = pre.help_v /\ version_v = pre.version_v

\* token t is one of the names descriptor d was registered with
Names(d) == {d.name} \cup (IF d.alt_name = NoName THEN {} ELSE {d.alt_name})
NamedBy(d, tokens) == \E i \in DOMAIN tokens : tokens[i] \in Names(d)

\* the positions of tokens that parse reads as a name: the first token, and
\* the token after each name and its value (a value follows the name of a
\* registered option that is no flag, when a token is left)
RECURSIVE NamePositionsFrom(_, _)
NamePositionsFrom(tokens, i) ==
    IF i > Len(tokens) THEN {}
    ELSE LET t == tokens[i]
             takes == /\ t \in DOMAIN _names
                      /\ _options[_names[t] + 1].kind # "bool"
         IN  {i} \cup NamePositionsFrom(tokens, IF takes THEN i + 2 ELSE i + 1)
NamePositions(tokens) == NamePositionsFrom(tokens, 1)

\* tokens with the occurrence at name position i (the name and, for a value
\* option, its value) written twice
Repeated(tokens, i) ==
    LET t == tokens[i]
        takes == t \in DOMAIN _names /\ _options[_names[t] + 1].kind # "bool"
        last == IF takes /\ i < Len(tokens) THEN i + 1 ELSE i
    IN  SubSeq(tokens, 1, last) \o SubSeq(tokens, i, last)
        \o SubSeq(tokens, last + 1, Len(tokens))

\* the frame of a call on tokens from the state the last call began in
FrameAgain(tokens) == [args |-> tokens, err |-> FALSE, req_count |-> any_req,
                       wrong |-> pre.wrong, mem |-> pre.mem, st |-> "run"]

\* no two descriptors of the registry were registered under a common name
DistinctNames ==
    \A i, j \in DOMAIN _options : i # j => Names(_options[i]) \cap Names(_options[j]) = {}

\* the registered names of the help and of the version flag
HelpNames == IF _help_flag.name = NoName THEN {} ELSE Names(_help_flag)
VersionNames == IF _version_flag.name = NoName THEN {} ELSE Names(_version_flag)

(***************************************************************************)
(* C1: when parse reaches its main loop and some required descriptor is    *)
(* named by no token of the stream, parse returns false and the error list *)
(* gains a "missing required" entry, also when other required options      *)
(* occur more than once.  Stated for registries whose descriptors have     *)
(* distinct names.                                                         *)
(***************************************************************************)
C1_MissingRequiredReported ==
    (pc = "done" /\ Prologue(argv) = "loop" /\ DistinctNames) =>
        \A i \in DOMAIN _options :
            (_options[i]._req /\ ~NamedBy(_options[i], argv)) =>
                /\ ret = FALSE
                /\ \E j \in DOMAIN Appended : Appended[j].kind = "missing required"

(***************************************************************************)
(* C2: repetition is harmless: when parse accepts a stream, the stream     *)
(* with any one option or flag occurrence repeated is accepted too, with   *)
(* no error entry and the same values in the write targets.                *)
(***************************************************************************)
C2_RepetitionHarmless ==
    (pc = "done" /\ Prologue(argv) = "loop" /\ ret = TRUE /\ Appended = <<>>) =>
        \A i \in NamePositions(argv) :
            \A F \in run(FrameAgain(Repeated(argv, i))) :
                /\ F.st = "run"
                /\ F.err = FALSE
                /\ F.wrong = pre.wrong
                /\ F.mem = mem

(***************************************************************************)
(* C3: for every value type, an assign(token) that raises a validation     *)
(* failure (the conversion failed, the value is outside a non-empty        *)
(* allow-list, or the predicate rejected it) leaves the write target with  *)
(* the value it held before the call.                                      *)
(***************************************************************************)
C3_FailedAssignKeepsTarget ==
    pc = "thrown" => mem = pre.mem

(***************************************************************************)
(* C4: when a parse call has returned, the error list holds exactly the    *)
(* entries that call appended, none from an earlier call; so after a call  *)
(* that returned true the list is empty.                                   *)
(***************************************************************************)
C4_WrongHoldsLastCallOnly ==
    pc = "done" =>
        /\ _wrong = Appended
        /\ ret = TRUE => _wrong = <<>>

(***************************************************************************)
(* C5: on the first parse call, parse returns true exactly when the error  *)
(* list is empty at the return; in the main loop err is set exactly when   *)
(* an entry has been appended.                                             *)
(***************************************************************************)
C5_TrueIffNoError ==
    (ncalls = 1 /\ pc \in {"loop", "done"}) =>
        /\ err = (_wrong # <<>>)
        /\ pc = "done" => ret = (_wrong = <<>>)

\* a first call returned false with a value error and a missing required error
C5_Witness ==
    /\ pc = "done" /\ ncalls = 1 /\ ret = FALSE
    /\ \E j \in DOMAIN _wrong : _wrong[j].kind = "value not allowed"
    /\ \E j \in DOMAIN _wrong : _wrong[j].kind = "missing required"

(***************************************************************************)
(* C6: add_option / add_flag fails when the name or alt_name is already in *)
(* the name index, and the existing mapping is not replaced: no step adds  *)
(* a descriptor under a name the index already holds, and no step changes  *)
(* what a name of the index maps to.                                       *)
(***************************************************************************)
C6_DuplicateNameRejected ==
    [][ /\ Len(_options') > Len(_options) =>
             Names(_options'[Len(_options')]) \cap DOMAIN _names = {}
        /\ \A k \in DOMAIN _names : k \in DOMAIN _names' /\ _names'[k] = _names[k]
      ]_vars

(***************************************************************************)
(* C7: for every descriptor of the registry its name and its alternate     *)
(* name resolve in the name index to that descriptor, every index entry    *)
(* points at a descriptor, and no name is carried by two descriptors.      *)
(***************************************************************************)
C7_IndexConsistent ==
    /\ \A i \in DOMAIN _options : \A k \in Names(_options[i]) :
          k \in DOMAIN _names /\ _names[k] = i - 1
    /\ \A k \in DOMAIN _names : _names[k] + 1 \in DOMAIN _options
    /\ DistinctNames

(***************************************************************************)
(* C8: a stream of exactly one token that is the registered help name or   *)
(* help alternate name sets the help indicator, returns true without       *)
(* entering the main loop (so required options are not checked), appends   *)
(* no error and leaves every other write target unchanged; the same for    *)
(* the version flag, which leaves the help indicator unchanged.            *)
(***************************************************************************)
C8_HelpVersionShortCircuit ==
    (pc \in {"loop", "done"} /\ Len(argv) = 1) =>
        /\ argv[1] \in HelpNames =>
              /\ pc = "done" /\ ret = TRUE /\ help_v = TRUE
              /\ Appended = <<>> /\ mem = pre.mem /\ version_v = pre.version_v
        /\ argv[1] \in VersionNames \ HelpNames =>
              /\ pc = "done" /\ ret = TRUE /\ version_v = TRUE
              /\ Appended = <<>> /\ mem = pre.mem /\ help_v = pre.help_v

\* the help alternate name alone, on a parser with a required option
C8_Witness ==
    /\ pc = "done" /\ argv = <<tok_H>> /\ tok_H \in HelpNames
    /\ help_v = TRUE /\ ret = TRUE
    /\ \E i \in DOMAIN _options : _options[i]._req

(***************************************************************************)
(* C9: in a stream of two or more tokens, a token in name position that is *)
(* the help or version name and no regular option does not set the help or *)
(* version indicator, gets an unknown-argument entry, and parse returns    *)
(* false, wherever the token stands.                                       *)
(***************************************************************************)
C9_HelpAmongOthersUnknown ==
    (pc = "done" /\ Len(argv) >= 2) =>
        \A i \in NamePositions(argv) :
            argv[i] \in (HelpNames \cup VersionNames) \ DOMAIN _names =>
                /\ ret = FALSE
                /\ help_v = pre.help_v /\ version_v = pre.version_v
                /\ \E j \in DOMAIN Appended : Appended[j] = UnknownArgument(argv[i])

\* a registered flag followed by the help name: the help name is the only error
C9_Witness ==
    /\ pc = "done" /\ Len(argv) = 2
    /\ argv[1] \in DOMAIN _names /\ argv[2] \in HelpNames \ DOMAIN _names
    /\ 2 \in NamePositions(argv)
    /\ _wrong = <<UnknownArgument(argv[2])>>

(***************************************************************************)
(* C10: after allow_no_args(), parse on an empty stream returns true even  *)
(* with required options registered, no_args() is true, no error is        *)
(* appended and no write target is modified; without allow_no_args() the   *)
(* empty invocation returns false when a required option is registered.    *)
(***************************************************************************)
C10_AllowNoArgs ==
    (pc \in {"loop", "done"} /\ argv = <<>>) =>
        IF _allow_no_args
        THEN /\ pc = "done" /\ ret = TRUE /\ no_args
             /\ Appended = <<>> /\ TargetsUntouched
        ELSE (pc = "done" /\ \E i \in DOMAIN _options : _options[i]._req) =>
                 ret = FALSE /\ no_args

\* the empty invocation accepted although a required option is registered
C10_Witness ==
    /\ pc = "done" /\ argv = <<>> /\ _allow_no_args /\ ret = TRUE
    /\ \E i \in DOMAIN _options : _options[i]._req

(***************************************************************************)
(* C11: no_args() is true on a parser on which parse was never called, and *)
(* after a parse call it is true exactly when the most recent call got no  *)
(* token after the program name.                                           *)
(***************************************************************************)
C11_NoArgsTracksLastCall ==
    /\ ncalls = 0 => no_args
    /\ pc = "done" => (no_args <=> argv = <<>>)

\* e is an unknown-argument entry
IsUnknownArgument(e) == e.kind = "unknown argument"

\* the tokens read in name position that are in no name index entry, in
\* stream order, when tokens[i] is read in name position
RECURSIVE UnknownsFrom(_, _)
UnknownsFrom(tokens, i) ==
    IF i > Len(tokens) THEN <<>>
    ELSE LET t == tokens[i]
         IN  IF t \notin DOMAIN _names THEN <<t>> \o UnknownsFrom(tokens, i + 1)
             ELSE IF _options[_names[t] + 1].kind = "bool" THEN UnknownsFrom(tokens, i + 1)
             ELSE UnknownsFrom(tokens, i + 2)

\* the name positions of tokens that resolve to the descriptor writing slot
PositionsOf(tokens, slot) ==
    {j \in NamePositions(tokens) :
        tokens[j] \in DOMAIN _names /\ _options[_names[tokens[j]] + 1]._ptr = slot}

(***************************************************************************)
(* C12: an unknown name does not abort the scan.  When parse ran its main  *)
(* loop, the unknown-argument entries it appended are, in stream order,    *)
(* exactly the tokens read in name position that are not in the name       *)
(* index, one entry each; the token after such a token is read as a name;  *)
(* and every registered flag named anywhere in the stream is set, every    *)
(* registered value option holds the value of its last occurrence when     *)
(* that value converts.                                                    *)
(***************************************************************************)
C12_UnknownDoesNotAbort ==
    (pc = "done" /\ Prologue(argv) = "loop") =>
        /\ SelectSeq(Appended, IsUnknownArgument)
              = [k \in DOMAIN UnknownsFrom(argv, 1) |-> UnknownArgument(UnknownsFrom(argv, 1)[k])]
        /\ \A i \in NamePositions(argv) :
              (argv[i] \notin DOMAIN _names /\ i < Len(argv)) => i + 1 \in NamePositions(argv)
        /\ \A slot \in DOMAIN mem :
              LET P == PositionsOf(argv, slot)
              IN  P # {} =>
                    LET j == CHOOSE x \in P : \A y \in P : y <= x
                        d == _options[_names[argv[j]] + 1]
                    IN  /\ d.kind = "bool" => mem[slot] = BoolV(TRUE)
                        /\ (d.kind = "integral" /\ j < Len(argv)
                              /\ from_chars_int(argv[j + 1]).ec = "ok")
                             => mem[slot] = from_chars_int(argv[j + 1]).value

\* an unknown token first, then a registered flag, which is set
C12_Witness ==
    /\ pc = "done" /\ Len(argv) = 2
    /\ argv[1] \notin DOMAIN _names /\ argv[1] \notin HelpNames \cup VersionNames
    /\ argv[2] \in DOMAIN _names
    /\ _options[_names[argv[2]] + 1].kind = "bool"
    /\ pre.mem[_options[_names[argv[2]] + 1]._ptr] = BoolV(FALSE)
    /\ mem[_options[_names[argv[2]] + 1]._ptr] = BoolV(TRUE)
    /\ Appended[1] = UnknownArgument(argv[1])

(***************************************************************************)
(* C13: over a registry whose descriptors were all configured with set(),  *)
(* no parse call that reaches the main loop ends other than by returning:  *)
(* every failure is an entry of the error list and a false result.         *)
(***************************************************************************)
C13_NoExceptionEscapes ==
    (ncalls > 0 /\ Prologue(argv) = "loop") =>
        /\ pc # "crashed"
        /\ pc = "done" => ret = (Appended = <<>>)

\* t is a decimal numeral: an optional '-' and one or more digits
IsNumeral(t) ==
    LET body == IF t # <<>> /\ Head(t) = "-" THEN Tail(t) ELSE t
    IN  body # <<>> /\ \A i \in DOMAIN body : body[i] \in Digits

\* the number a decimal numeral denotes
NumeralValue(t) ==
    IF Head(t) = "-" THEN 0 - DigitsValue(Tail(t), 0) ELSE DigitsValue(t, 0)

\* the least and the greatest value of an integral option type
TypeMin(kind) == IF kind = "unsigned" THEN 0 ELSE IntMin
TypeMax(kind) == IF kind = "unsigned" THEN UIntMax ELSE IntMax

\* t denotes a number the option type cannot represent
OutOfRange(kind, t) ==
    IsNumeral(t) /\ (NumeralValue(t) < TypeMin(kind) \/ NumeralValue(t) > TypeMax(kind))

(***************************************************************************)
(* C14: when an integral option (signed or unsigned, 16 bit) is given a    *)
(* numeral whose value its type cannot represent (above the maximum, below *)
(* the minimum, negative for the unsigned type), parse appends a           *)
(* value-not-allowed entry for that option and token and returns false;    *)
(* the write target always holds a value of the type's range, and keeps    *)
(* the value it had when every value given to the option was out of range. *)
(***************************************************************************)
C14_OutOfRangeRejected ==
    (pc = "done" /\ Prologue(argv) = "loop") =>
        \A j \in NamePositions(argv) :
            (/\ argv[j] \in DOMAIN _names
             /\ j < Len(argv)
             /\ _options[_names[argv[j]] + 1].kind \in {"integral", "unsigned"}
             /\ OutOfRange(_options[_names[argv[j]] + 1].kind, argv[j + 1])) =>
                LET d == _options[_names[argv[j]] + 1]
                    valued == {k \in PositionsOf(argv, d._ptr) : k < Len(argv)}
                IN  /\ ret = FALSE
                    /\ \E k \in DOMAIN Appended : Appended[k] = NotAllowed(argv[j], argv[j + 1])
                    /\ mem[d._ptr].n \in TypeMin(d.kind)..TypeMax(d.kind)
                    /\ (\A k \in valued : OutOfRange(d.kind, argv[k + 1]))
                          => mem[d._ptr] = pre.mem[d._ptr]

\* 40000 given to the short option: rejected, the default stays
C14_Witness ==
    /\ pc = "done"
    /\ _options[1].kind = "integral"
    /\ argv = <<tok_a, <<"4", "0", "0", "0", "0">>>>
    /\ ret = FALSE
    /\ Appended[1] = NotAllowed(tok_a, argv[2])
    /\ mem[1] = OptionDefault("integral")

\* the frame of the last call at its main loop, had the call counted the
\* required descriptors of this parser's own registry
OwnFrame == [FrameAgain(argv) EXCEPT !.req_count = RequiredTotal]

(***************************************************************************)
(* C15: the required count parse works with is the number of required     *)
(* descriptors of the parser's own registry, so req() calls on descriptors *)
(* of other parser instances do not change what parse returns and          *)
(* reports.                                                                *)
(***************************************************************************)
C15_RequiredCountIsOwn ==
    /\ (pc = "loop" /\ args = argv) => req_count = RequiredTotal
    /\ (pc = "done" /\ Prologue(argv) = "loop") =>
          \A F \in run(OwnFrame) : ret = ~F.err /\ _wrong = F.wrong

RECURSIVE Merged(_)
Merged(vs) ==
    IF vs = <<>> THEN <<>>
    ELSE LET front == Merged(SubSeq(vs, 1, Len(vs) - 1))
             last == vs[Len(vs)]
         IN  IF \E i \in DOMAIN front : front[i] = last THEN front ELSE Append(front, last)

(***************************************************************************)
(* C18: value_info() of a flag is the empty string; of a value option it   *)
(* is "<" value_name ">" when the allow-list is empty, and otherwise "("   *)
(* the allow-listed values, duplicates merged, in the order they were      *)
(* passed to match(), separated by single spaces, ")".                     *)
(***************************************************************************)
C18_ValueInfoFormat ==
    call.fn = "value_info" =>
        LET d == _options[1]
        IN  call.out =
              IF d.kind = "bool" THEN <<>>
              ELSE IF d._match_list = {} THEN <<"<">> \o d._vname \o <<">">>
              ELSE <<"(">> \o JoinText(d.kind, Merged(call.arg)) \o <<")">>

(***************************************************************************)
(* C19: synopsis() is the alternate name when the descriptor has one and   *)
(* the primary name otherwise, then one space, then value_info(); it never *)
(* begins with a space.                                                    *)
(***************************************************************************)
C19_SynopsisFormat ==
    call.fn = "synopsis" =>
        LET d == _options[1]
        IN  /\ call.out = (IF d.alt_name # NoName THEN d.alt_name ELSE d.name)
                            \o <<" ">> \o value_info(d)
            /\ Head(call.out) # " "

(***************************************************************************)
(* C20: on integers, with V1 < V2 for the two-bound templates:             *)
(* between<V1,V2>(v) iff V1 < v < V2, ibetween<V1,V2>(v) iff               *)
(* V1 <= v <= V2, greater_than<V>(v) iff v > V, igreater_than<V>(v) iff    *)
(* v >= V, less_than<V>(v) iff v < V, iless_than<V>(v) iff v <= V; so      *)
(* less_than<V> is the negation of igreater_than<V>, greater_than<V> the   *)
(* negation of iless_than<V>, and an inclusive variant differs from its    *)
(* exclusive one exactly at the bounds.                                    *)
(***************************************************************************)
C20_PredicateSemantics ==
    pc = "pred" =>
        LET V1 == call.arg[1]
            V2 == call.arg[2]
            v == call.arg[3]
        IN  /\ call.fn = "between" => call.out = (V1 < v /\ v < V2)
            /\ call.fn = "ibetween" => call.out = (V1 <= v /\ v <= V2)
            /\ call.fn = "greater_than" => call.out = (v > V1)
            /\ call.fn = "igreater_than" => call.out = (v >= V1)
            /\ call.fn = "less_than" => call.out = (v < V1)
            /\ call.fn = "iless_than" => call.out = (v <= V1)
            /\ less_than(IntV(V1), IntV(v)) = ~igreater_than(IntV(V1), IntV(v))
            /\ greater_than(IntV(V1), IntV(v)) = ~iless_than(IntV(V1), IntV(v))
            /\ (igreater_than(IntV(V1), IntV(v)) # greater_than(IntV(V1), IntV(v))) = (v = V1)
            /\ (iless_than(IntV(V1), IntV(v)) # less_than(IntV(V1), IntV(v))) = (v = V1)
            /\ V1 < V2 =>
                  (ibetween(IntV(V1), IntV(V2), IntV(v)) # between(IntV(V1), IntV(V2), IntV(v)))
                     = (v \in {V1, V2})

\* between called on its lower bound: false
C20_Witness ==
    /\ pc = "pred" /\ call.fn = "between"
    /\ call.arg[1] < call.arg[2] /\ call.arg[3] = call.arg[1]
    /\ call.out = FALSE

(***************************************************************************)
(* C21: each iteration of the main loop that reads a registered name and   *)
(* runs to its end consumes, for a flag, exactly that one token, so that   *)
(* the token after it is read as a name; and for a value option followed   *)
(* by a token, exactly two tokens, the name and the token after it,        *)
(* whatever that token is and whether its assignment returns or throws.    *)
(***************************************************************************)
C21_TokenConsumption ==
    [][ (pc = "loop" /\ args # <<>> /\ Head(args) \in DOMAIN _names /\ pc' = "loop") =>
            LET d == _options[_names[Head(args)] + 1]
            IN  /\ d.kind = "bool" => args' = Tail(args)
                /\ (d.kind # "bool" /\ Len(args) >= 2) => args' = Tail(Tail(args))
                /\ (d.kind # "bool" /\ Len(args) = 1) => args' = <<>> ]_vars

\* a value option followed by the help name: both tokens are consumed and
\* the help name is rejected as a value
C21_Witness ==
    /\ pc = "loop" /\ argv = <<tok_a, tok_h>> /\ args = <<>>
    /\ Appended = <<NotAllowed(tok_a, tok_h)>>
    /\ help_v = pre.help_v

(***************************************************************************)
(* C22: when parse ran its main loop and returned, the entries it appended *)
(* hold a "missing option value" entry if and only if the last token of    *)
(* the stream is read in name position and names a value option.  There is *)
(* then exactly one such entry, it carries that token as the option name,  *)
(* and it is the last entry or is followed by the "missing required" entry *)
(* alone.  The step that appends it leaves every target as it was.         *)
(***************************************************************************)
C22_MissingValue ==
    /\ [] ((pc = "done" /\ Prologue(argv) = "loop") =>
              LET MV == SelectSeq(Appended, LAMBDA e : e.kind = "missing option value")
                  n == Len(argv)
                  k == Len(Appended)
                  last_names_value ==
                      /\ n >= 1 /\ n \in NamePositions(argv)
                      /\ argv[n] \in DOMAIN _names
                      /\ _options[_names[argv[n]] + 1].kind # "bool"
              IN  /\ (MV # <<>>) <=> last_names_value
                  /\ MV # <<>> =>
                        /\ MV = <<MissingValue(argv[n])>>
                        /\ \/ Appended[k] = MV[1]
                           \/ /\ k >= 2 /\ Appended[k - 1] = MV[1]
                              /\ Appended[k].kind = "missing required")
    /\ [][ (pc = "loop" /\ Len(_wrong') = Len(_wrong) + 1
              /\ _wrong'[Len(_wrong')].kind = "missing option value")
           => (mem' = mem /\ help_v' = help_v /\ version_v' = version_v) ]_vars

\* a value option as the only token, with another descriptor required: the
\* missing value entry, then the missing required entry, targets as before
C22_Witness ==
    /\ pc = "done" /\ argv = <<tok_a>>
    /\ Appended = <<MissingValue(tok_a), MissingRequired(1)>>
    /\ mem = pre.mem
    /\ ret = FALSE

(***************************************************************************)
(* C23: required accounting depends on the name match only.  When parse    *)
(* ran its main loop and returned, the working required counter is the     *)
(* static count less the number of tokens read in name position that name  *)
(* a required descriptor, whatever became of their values.  On a parser    *)
(* whose only required descriptor is a value option named once, a run in   *)
(* which its value is missing or rejected returns false with the value     *)
(* error and without a "missing required" entry.                           *)
(***************************************************************************)
RequiredNamed(tokens) ==
    {i \in NamePositions(tokens) :
        tokens[i] \in DOMAIN _names /\ _options[_names[tokens[i]] + 1]._req}

C23_RequiredByNameOnly ==
    (pc = "done" /\ Prologue(argv) = "loop") =>
        /\ req_count = any_req - Cardinality(RequiredNamed(argv))
        /\ (any_req = 1 /\ Cardinality(RequiredNamed(argv)) = 1) =>
              LET i == CHOOSE j \in RequiredNamed(argv) : TRUE
                  d == _options[_names[argv[i]] + 1]
                  rejected == /\ i < Len(argv)
                              /\ \A o \in assign(d, pre.mem[d._ptr], argv[i + 1]) : o.st = "throw"
              IN  /\ SelectSeq(Appended, LAMBDA e : e.kind = "missing required") = <<>>
                  /\ (d.kind # "bool" /\ i = Len(argv)) =>
                        (ret = FALSE /\ Appended[Len(Appended)] = MissingValue(argv[i]))
                  /\ (d.kind # "bool" /\ rejected) =>
                        /\ ret = FALSE
                        /\ \E k \in DOMAIN Appended : Appended[k] = NotAllowed(argv[i], argv[i + 1])

\* the required option with a value its predicate rejects
C23_Witness ==
    /\ pc = "done" /\ _options[1]._req /\ any_req = 1
    /\ _options[1].kind = "integral" /\ _options[1]._match_func # NoPred
    /\ argv = <<tok_a, <<"1", "2">>>>
    /\ Appended = <<NotAllowed(tok_a, <<"1", "2">>)>>
    /\ req_count = 0 /\ ret = FALSE

(***************************************************************************)
(* C24: the predicate of a value descriptor is called only with the value  *)
(* the token converts to.  After an assign(token), every value the log     *)
(* shows the predicate was called with is the result of a successful       *)
(* conversion of the token by the rule of the descriptor's type: the token *)
(* itself for a string or a path, its first character for a character,     *)
(* the number from_chars reads for a numeric type.                         *)
(***************************************************************************)
\* the conversion of a token to the type: [ok, value]
Converted(kind, token) ==
    CASE kind \in {"string", "path"} -> [ok |-> TRUE, value |-> StrV(token)]
      [] kind = "character" ->
            IF token = <<>> THEN [ok |-> FALSE, value |-> ValueInit(kind)]
            ELSE [ok |-> TRUE, value |-> StrV(<<Head(token)>>)]
      [] kind = "integral" ->
            [ok |-> from_chars_int(token).ec = "ok", value |-> from_chars_int(token).value]
      [] kind = "unsigned" ->
            [ok |-> from_chars_uint(token).ec = "ok", value |-> from_chars_uint(token).value]
      [] kind = "floating" ->
            [ok |-> from_chars_float(token).ec = "ok", value |-> from_chars_float(token).value]

C24_PredicateSeesConverted ==
    (ncalls > 0 /\ call.fn = "_match_func") =>
        \A k \in DOMAIN call.out :
            /\ Converted(_options[1].kind, call.arg).ok
            /\ call.out[k] = Converted(_options[1].kind, call.arg).value

(***************************************************************************)
(* C25: after an assign(token) whose token converts to a value of the      *)
(* type, the call returned and the target holds the value if and only if   *)
(* the value is in the allow-list, when that is not empty, and the         *)
(* predicate returns true for it, when one is set; otherwise the call      *)
(* threw.  With one of the two configured that one decides, with neither   *)
(* the call returns for every token that converts.                         *)
(***************************************************************************)
C25_AllowListAndPredicate ==
    (ncalls > 0 /\ pc \in {"returned", "thrown"}
        /\ Converted(_options[1].kind, argv[1]).ok) =>
        LET d == _options[1]
            v == Converted(d.kind, argv[1]).value
            listed == d._match_list = {} \/ v \in d._match_list
            passes == d._match_func = NoPred \/ CallPred(d._match_func, v)
        IN  /\ (pc = "returned") <=> (listed /\ passes)
            /\ pc = "returned" => mem[1] = v
            /\ (d._match_list = {} /\ d._match_func # NoPred) =>
                  ((pc = "returned") <=> CallPred(d._match_func, v))
            /\ (d._match_list # {} /\ d._match_func = NoPred) =>
                  ((pc = "returned") <=> v \in d._match_list)
            /\ (d._match_list = {} /\ d._match_func = NoPred) => pc = "returned"

\* both configured: 12 passes the predicate and is not in the list
C25_Witness ==
    /\ pc = "thrown" /\ _options[1].kind = "integral"
    /\ _options[1]._match_list = {IntV(7)}
    /\ _options[1]._match_func = Pred1("igreater_than", IntV(12))
    /\ argv = <<<<"1", "2">>>>
    /\ CallPred(_options[1]._match_func, IntV(12))
    /\ mem = pre.mem

(***************************************************************************)
(* C26: the typed assignment option = value accepts a value exactly when   *)
(* the text assignment of the same value does.  After option = value the   *)
(* call returned if and only if assign, called in the same state with the  *)
(* text of the value, returns; and when the call threw, the target is as   *)
(* it was.                                                                 *)
(***************************************************************************)
C26_TypedAssignAsText ==
    (ncalls > 0 /\ call.fn = "operator=" /\ pc \in {"returned", "thrown"}) =>
        LET d == _options[1]
            text == ToText(d.kind, call.arg)
        IN  /\ \A o \in assign(d, pre.mem[1], text) : (pc = "returned") <=> (o.st = "ok")
            /\ pc = "returned" => mem[1] = call.arg
            /\ pc = "thrown" => mem = pre.mem

(***************************************************************************)
(* C27: parse terminates.  A call that entered its main loop returns; each *)
(* iteration of the loop makes the queue shorter by at least one token;    *)
(* and the loop is left for the required check and the return only with    *)
(* an empty queue.                                                         *)
(***************************************************************************)
C27_ParseTerminates ==
    /\ (pc = "loop") ~> (pc = "done")
    /\ [][ (pc = "loop" /\ pc' = "loop") => Len(args') < Len(args) ]_vars
    /\ [][ (pc = "loop" /\ pc' = "done") => (args = <<>> /\ args' = <<>>) ]_vars

\* a call on two tokens, an unknown one and a name without value, returned
C27_Witness ==
    /\ pc = "done" /\ argv = <<tok_7, tok_a>> /\ args = <<>>
    /\ Len(Appended) = 2 /\ ret = FALSE

(***************************************************************************)
(* C28: parse takes the help (the version) short-circuit only for a token  *)
(* that is a name help_flag (version_flag) was called with.  On a parser   *)
(* on which help_flag was never called, or was called with one name, no    *)
(* stream is taken as help unless its token is that name; a single empty   *)
(* string goes to the main loop and leaves the help indicator as it was.   *)
(***************************************************************************)
C28_ShortCircuitOnlyRegistered ==
    (ncalls > 0) =>
        /\ Prologue(argv) = "help" => argv[1] \in HelpNames
        /\ Prologue(argv) = "version" => argv[1] \in VersionNames
        /\ argv = <<NoName>> => (pc \in {"loop", "done"} /\ help_v = pre.help_v
                                  /\ version_v = pre.version_v)

(***************************************************************************)
(* C29: parse never writes through an unbound target.  No parse call ends  *)
(* in a write through a null _ptr: on streams whose tokens are not the     *)
(* empty string, every descriptor parse assigns to (an option or a flag    *)
(* that a token in name position names, the help or version handle on the  *)
(* short-circuit) was bound by set().                                      *)
(***************************************************************************)
\* the descriptors a parse call on tokens assigns to
Assigned(tokens) ==
    CASE Prologue(tokens) = "help" -> {_help_flag.hndl}
      [] Prologue(tokens) = "version" -> {_version_flag.hndl}
      [] Prologue(tokens) = "no_args" -> {}
      [] OTHER ->
            {_options[_names[tokens[i]] + 1] :
                i \in {j \in NamePositions(tokens) :
                          /\ tokens[j] \in DOMAIN _names
                          /\ \/ _options[_names[tokens[j]] + 1].kind = "bool"
                             \/ j < Len(tokens)}}

C29_NoUnboundWrite ==
    (ncalls > 0 /\ \A i \in DOMAIN argv : argv[i] # NoName) =>
        /\ pc # "crashed"
        /\ pc = "done" => \A d \in Assigned(argv) : d._ptr # nullptr

(***************************************************************************)
(* C30: during a parse call the working required counter stays within      *)
(* 0 .. the required total it was copied from: it is never decremented     *)
(* below zero (where the unsigned counter wraps), also when a required     *)
(* descriptor is named by more than one token.                             *)
(***************************************************************************)
C30_RequiredCounterInRange ==
    (ncalls > 0 /\ pc \in {"loop", "done"} /\ DistinctNames) =>
        (req_count >= 0 /\ req_count <= any_req)
====
